---- MODULE Spec2Model ----
(***************************************************************************)
(* State-machine model of ocrlocate: the SQLite index store (src/db.rs),   *)
(* its LIKE path scoping, the schema-version dispatch on open, and the     *)
(* index_dir pipeline (src/index.rs).                                      *)
(*                                                                         *)
(* Strings are sequences of one-character strings, so that the LIKE        *)
(* pattern compare and path_to_like work on characters as SQLite and Rust  *)
(* do.                                                                     *)
(***************************************************************************)
EXTENDS Integers, Sequences, FiniteSets, Bags, TLC

VARIABLES
  dbState,      \* "closed" | "open" | "failed": the DB handle of DB::new
  userVersion,  \* PRAGMA user_version of the database file
  hasTables,    \* images, images_fts and the three triggers exist
  images,       \* rows of table images
  images_fts,   \* bag of live <<rowid, content>> entries of the FTS index
  lastRet,      \* the last store call made and what it returned
  markedDir,    \* D of the mark_for_deletion whose sweep is pending, or NoDir
  unmarked,     \* paths passed to unmark_file since that mark_for_deletion
  likeP,        \* input p of the path_to_like check
  likeQ,        \* input q of the path_to_like check
  likePat,      \* path_to_like(p), or the empty string before it is computed
  likeRes,      \* q LIKE likePat ESCAPE '#': "unset", "match" or "nomatch"
  files,        \* file system below the current directory: path -> mtime
  pc,           \* position of index_dir: "idle", "chunks", "done", "panicked"
  options,      \* IndexOptions of the current or last index_dir run
  todo,         \* walker entries not yet pulled into a chunk
  run,          \* what the current or last run did
  quiet,        \* no file was written or removed since the run started
  nruns,        \* index_dir runs started
  ocr,          \* the OCR adapter Ocr::new returned
  ocrOut,       \* what the last Ocr::scan returned
  pool          \* the parallel map of the chunk in work and its workers

fileVars == <<userVersion, hasTables>>
tableVars == <<images, images_fts>>
sweepVars == <<markedDir, unmarked>>
likeVars == <<likeP, likeQ, likePat, likeRes>>
indexVars == <<files, pc, options, todo, run, quiet, nruns>>
ocrVars == <<ocr, ocrOut, pool>>
vars == <<dbState, userVersion, hasTables, images, images_fts,
          lastRet, markedDir, unmarked,
          likeP, likeQ, likePat, likeRes,
          files, pc, options, todo, run, quiet, nruns,
          ocr, ocrOut, pool>>

----
\* Bounds

\* Modification times of the model run over whole seconds 1..MaxSeconds.
MaxSeconds == 2

\* Longest batch handed to save_results.
MaxBatch == 2

\* Largest rowid the model lets the images table hand out.
MaxId == 3

\* Largest LIMIT passed to search.
MaxLimit == 2

\* Longest string p or q of the LIKE check.
MaxLen == 2

\* Highest user_version a database file starts with.
MaxVersion == 3

\* Sub-second resolution of a file's modification time: ticks per second.
TicksPerSec == 2

----
\* Characters and strings

\* SQLite's sqlite3Tolower on the ASCII letters of the model's alphabet.
Lower(c) ==
  IF c = "T" THEN "t" ELSE IF c = "A" THEN "a" ELSE c

EscapeChar == "#"

\* str::replace(ch, rep): every occurrence of the character ch becomes rep.
RECURSIVE Replace(_, _, _)
Replace(s, ch, rep) ==
  IF s = <<>> THEN <<>>
  ELSE (IF Head(s) = ch THEN rep ELSE <<Head(s)>>) \o Replace(Tail(s), ch, rep)

\* db.rs path_to_like: double '#', prefix '%' and '_' with '#', append '%'.
path_to_like(s) ==
  Replace(Replace(Replace(s, "#", <<"#", "#">>), "%", <<"#", "%">>),
          "_", <<"#", "_">>) \o <<"%">>

\* SQLite's  str LIKE pat ESCAPE '#'  (patternCompare with noCase set):
\* '%' matches any run, '_' one character, '#' takes the next pattern
\* character literally; literals compare equal up to ASCII case.
RECURSIVE Like(_, _)
Like(pat, str) ==
  IF pat = <<>> THEN str = <<>>
  ELSE IF Head(pat) = "%"
    THEN \E k \in 0..Len(str) : Like(Tail(pat), SubSeq(str, k + 1, Len(str)))
  ELSE IF Head(pat) = "_"
    THEN str # <<>> /\ Like(Tail(pat), Tail(str))
  ELSE IF Head(pat) = EscapeChar
    THEN /\ Len(pat) >= 2
         /\ str # <<>>
         /\ Lower(pat[2]) = Lower(Head(str))
         /\ Like(Tail(Tail(pat)), Tail(str))
  ELSE /\ str # <<>>
       /\ Lower(Head(pat)) = Lower(Head(str))
       /\ Like(Tail(pat), Tail(str))

\* q begins with the characters of p, compared exactly.
StartsWith(q, p) ==
  Len(q) >= Len(p) /\ SubSeq(q, 1, Len(p)) = p

----
\* Paths, directories and OCR results the store calls are made with

None == "none"

\* No directory: the absent Option<&str>, and no pending mark_for_deletion.
NoDir == <<>>

\* A call, its arguments and its return value.
Ret(op, arg, val) == [op |-> op, arg |-> arg, val |-> val]

DirT == <<"/", "t">>
DirTT == <<"/", "t", "t">>
DirUpperT == <<"/", "T">>

\* p is located inside directory d.
Under(p, d) == StartsWith(p, d \o <<"/">>)

InDir(d, name) == d \o <<"/", name>>

Dirs == {DirT, DirTT, DirUpperT}
ApiDirs == Dirs
ApiPaths == {InDir(DirT, "a"), InDir(DirTT, "a")}

TextCat == <<"c", "a", "t">>
TextTata == <<"t", "a", "t", "a">>

\* The text OCR reads from a file last written at tick t.
TextAt(t) == IF (t \div TicksPerSec) % 2 = 1 THEN TextTata ELSE TextCat

\* fs::Metadata is modelled by the modification time in ticks: every tick
\* of the seconds 1..MaxSeconds.
Metas == TicksPerSec .. (TicksPerSec * MaxSeconds + TicksPerSec - 1)

\* The ticks at which the files of the model are written: the last tick of
\* each second, so that is_indexed can be asked about an earlier instant
\* of the same second.
WriteTicks == {TicksPerSec * sec + TicksPerSec - 1 : sec \in 1..MaxSeconds}

\* db.rs OcrResult
OcrResults == [path : ApiPaths, metadata : WriteTicks, contents : {TextCat, TextTata}]
ApiResults == {r \in OcrResults : r.contents = TextAt(r.metadata)}

Batches ==
  UNION {[1..n -> ApiResults] : n \in 0..MaxBatch}

\* db.rs metadata_to_seconds: Duration::as_secs drops the sub-second part.
metadata_to_seconds(m) == m \div TicksPerSec

----
\* The schema of init_db: table images, FTS index images_fts and its triggers

\* trigger images_insert
images_insert(fts, new) == fts (+) SetToBag({<<new.id, new.content>>})

\* trigger images_delete
images_delete(fts, old) == fts (-) SetToBag({<<old.id, old.content>>})

\* trigger images_update with the 'delete' of the old entry left out
images_update_nodelete(fts, old, new) == images_insert(fts, new)

\* trigger images_update
images_update(fts, old, new) == images_insert(images_delete(fts, old), new)

\* id INTEGER PRIMARY KEY: SQLite picks the largest rowid in use plus one.
NextId(rows) ==
  IF rows = {} THEN 1
  ELSE (CHOOSE i \in {r.id : r \in rows} : \A r \in rows : r.id <= i) + 1

\* The images_update trigger fired once for each row of an UPDATE that
\* leaves id and content as they are.
RECURSIVE FireUpdates(_, _)
FireUpdates(fts, rows) ==
  IF rows = {} THEN fts
  ELSE LET r == CHOOSE x \in rows : TRUE
       IN  FireUpdates(images_update(fts, r, r), rows \ {r})

\* The images_delete trigger fired once for each row of a DELETE.
RECURSIVE FireDeletes(_, _)
FireDeletes(fts, rows) ==
  IF rows = {} THEN fts
  ELSE LET r == CHOOSE x \in rows : TRUE
       IN  FireDeletes(images_delete(fts, r), rows \ {r})

----
\* DB::new and init_db

Versions == 0..MaxVersion

\* init_db without the PRAGMA user_version = 2 of its batch.
init_db_noversion ==
  /\ hasTables' = TRUE
  /\ UNCHANGED <<userVersion, tableVars>>

\* init_db: one transaction creates the schema and sets user_version = 2.
init_db ==
  /\ hasTables' = TRUE
  /\ userVersion' = 2
  /\ UNCHANGED tableVars

\* DB::new: dispatch on user_version; the two panics leave the file as it is.
Open ==
  /\ dbState = "closed"
  /\ UNCHANGED <<sweepVars, likeVars, ocrVars, indexVars>>
  /\ CASE userVersion = 0 ->
            /\ init_db
            /\ dbState' = "open"
            /\ lastRet' = Ret("open", userVersion, "ok")
       [] userVersion = 1 ->
            /\ dbState' = "failed"
            /\ lastRet' = Ret("open", userVersion, "panic")
            /\ UNCHANGED <<fileVars, tableVars>>
       [] userVersion = 2 ->
            /\ dbState' = "open"
            /\ lastRet' = Ret("open", userVersion, "ok")
            /\ UNCHANGED <<fileVars, tableVars>>
       [] OTHER ->
            /\ dbState' = "failed"
            /\ lastRet' = Ret("open", userVersion, "panic")
            /\ UNCHANGED <<fileVars, tableVars>>

\* The process ends and the handle is dropped; the file stays.
Close ==
  /\ dbState = "open"
  /\ dbState' = "closed"
  /\ lastRet' = Ret("close", None, None)
  /\ UNCHANGED <<fileVars, tableVars, sweepVars, likeVars, ocrVars, indexVars>>

----
\* DB::is_indexed

\* is_indexed answering on the existence of the row alone.
is_indexed_anymodtime(rows, path, metadata) ==
  \E r \in rows : r.path = path

\* SELECT modtime FROM images WHERE path = ?1, first row if any.
is_indexed(rows, path, metadata) ==
  LET found == {r \in rows : r.path = path}
      mtime == metadata_to_seconds(metadata)
  IN  IF found = {} THEN FALSE
      ELSE (CHOOSE r \in found : \A o \in found : r.id <= o.id).modtime = mtime

IsIndexed(path, metadata) ==
  /\ dbState = "open"
  /\ lastRet' = Ret("is_indexed", <<path, metadata>>, is_indexed(images, path, metadata))
  /\ UNCHANGED <<dbState, fileVars, tableVars, sweepVars, likeVars, ocrVars, indexVars>>

----
\* DB::save_results

\* INSERT without the ON CONFLICT clause taking effect: always a new row.
upsert_insertonly(st, res) ==
  LET new == [id |-> NextId(st.images), path |-> res.path,
              modtime |-> metadata_to_seconds(res.metadata),
              mark_delete |-> FALSE, content |-> res.contents]
  IN  [images |-> st.images \cup {new},
       fts |-> images_insert(st.fts, new),
       changes |-> st.changes + 1]

\* The upsert with execute() counting inserted rows only.
upsert_updateuncounted(st, res) ==
  LET found == {r \in st.images : r.path = res.path}
      new == [id |-> NextId(st.images), path |-> res.path,
              modtime |-> metadata_to_seconds(res.metadata),
              mark_delete |-> FALSE, content |-> res.contents]
  IN  IF found = {}
      THEN [images |-> st.images \cup {new},
            fts |-> images_insert(st.fts, new),
            changes |-> st.changes + 1]
      ELSE LET old == CHOOSE r \in found : TRUE
               upd == [old EXCEPT !.modtime = metadata_to_seconds(res.metadata),
                                  !.content = res.contents]
           IN  [images |-> (st.images \ {old}) \cup {upd},
                fts |-> images_update(st.fts, old, upd),
                changes |-> st.changes]

\* The statement as INSERT OR REPLACE: the row in conflict is deleted and a
\* new row is inserted, with a new id and the default mark_delete.
upsert_replace(st, res) ==
  LET found == {r \in st.images : r.path = res.path}
      rest == st.images \ found
      new == [id |-> NextId(st.images), path |-> res.path,
              modtime |-> metadata_to_seconds(res.metadata),
              mark_delete |-> FALSE, content |-> res.contents]
  IN  [images |-> rest \cup {new},
       fts |-> IF found = {} THEN images_insert(st.fts, new)
               ELSE images_insert(images_delete(st.fts,
                                                CHOOSE r \in found : TRUE), new),
       changes |-> st.changes + 1]

\* INSERT INTO images (path, modtime, content) ... ON CONFLICT(path) DO UPDATE
\* SET modtime, content; mark_delete takes its default on insert and is
\* left alone on update.
upsert(st, res) ==
  LET found == {r \in st.images : r.path = res.path}
      new == [id |-> NextId(st.images), path |-> res.path,
              modtime |-> metadata_to_seconds(res.metadata),
              mark_delete |-> FALSE, content |-> res.contents]
  IN  IF found = {}
      THEN [images |-> st.images \cup {new},
            fts |-> images_insert(st.fts, new),
            changes |-> st.changes + 1]
      ELSE LET old == CHOOSE r \in found : TRUE
               upd == [old EXCEPT !.modtime = metadata_to_seconds(res.metadata),
                                  !.content = res.contents]
           IN  [images |-> (st.images \ {old}) \cup {upd},
                fts |-> images_update(st.fts, old, upd),
                changes |-> st.changes + 1]

\* The statement executed for every result of the batch, in order.
RECURSIVE save_all(_, _)
save_all(st, results) ==
  IF results = <<>> THEN st
  ELSE save_all(upsert(st, Head(results)), Tail(results))

save_results(results) ==
  /\ dbState = "open"
  /\ LET st == save_all([images |-> images, fts |-> images_fts, changes |-> 0],
                        results)
     IN  /\ \A r \in st.images : r.id <= MaxId
         /\ images' = st.images
         /\ images_fts' = st.fts
         /\ lastRet' = Ret("save_results", results, st.changes)
  /\ UNCHANGED <<dbState, fileVars, likeVars, ocrVars, indexVars>>

SaveResults(results) ==
  /\ save_results(results)
  /\ UNCHANGED sweepVars

----
\* DB::mark_for_deletion, DB::unmark_file, DB::sweep_deletions

\* The WHERE clause of the marking UPDATE: path LIKE path_to_like(dir).
mark_where(path, dir) == Like(path_to_like(dir), path)

\* Directories of the file system (Path::is_dir).
is_dir(path) == path \in Dirs

\* The marking with its second UPDATE left out: marks are cleared, no row
\* is marked.
mark_stmts_clearonly(st, dir) ==
  LET cleared == {r \in st.images : r.mark_delete}
  IN  [images |-> (st.images \ cleared)
                    \cup {[r EXCEPT !.mark_delete = FALSE] : r \in cleared},
       fts |-> FireUpdates(st.fts, cleared)]

\* UPDATE images SET mark_delete = FALSE WHERE mark_delete = TRUE, then
\* UPDATE images SET mark_delete = TRUE WHERE path LIKE ?1 ESCAPE '#'.
mark_stmts(st, dir) ==
  LET cleared == {r \in st.images : r.mark_delete}
      rows1 == (st.images \ cleared)
                 \cup {[r EXCEPT !.mark_delete = FALSE] : r \in cleared}
      fts1 == FireUpdates(st.fts, cleared)
      hit == {r \in rows1 : mark_where(r.path, dir)}
  IN  [images |-> (rows1 \ hit)
                    \cup {[r EXCEPT !.mark_delete = TRUE] : r \in hit},
       fts |-> FireUpdates(fts1, hit)]

\* UPDATE images SET mark_delete = FALSE WHERE path = ?1.
unmark_stmt(st, path) ==
  LET hit == {r \in st.images : r.path = path}
  IN  [images |-> (st.images \ hit)
                    \cup {[r EXCEPT !.mark_delete = FALSE] : r \in hit},
       fts |-> FireUpdates(st.fts, hit)]

\* DELETE FROM images WHERE mark_delete = TRUE, and the number of rows.
sweep_stmt(st) ==
  LET gone == {r \in st.images : r.mark_delete}
  IN  [images |-> st.images \ gone,
       fts |-> FireDeletes(st.fts, gone),
       changes |-> Cardinality(gone)]

Store == [images |-> images, fts |-> images_fts]

mark_for_deletion(dir) ==
  /\ dbState = "open"
  /\ is_dir(dir)
  /\ LET st == mark_stmts(Store, dir)
     IN  /\ images' = st.images
         /\ images_fts' = st.fts
  /\ lastRet' = Ret("mark_for_deletion", dir, None)
  /\ UNCHANGED <<dbState, fileVars, likeVars, ocrVars, indexVars>>

MarkForDeletion(dir) ==
  /\ mark_for_deletion(dir)
  /\ UNCHANGED sweepVars

unmark_file(path) ==
  /\ dbState = "open"
  /\ LET st == unmark_stmt(Store, path)
     IN  /\ images' = st.images
         /\ images_fts' = st.fts
  /\ lastRet' = Ret("unmark_file", path, None)
  /\ UNCHANGED <<dbState, fileVars, likeVars, ocrVars, indexVars>>

UnmarkFile(path) ==
  /\ unmark_file(path)
  /\ UNCHANGED sweepVars

sweep_deletions ==
  /\ dbState = "open"
  /\ LET st == sweep_stmt(Store)
     IN  /\ images' = st.images
         /\ images_fts' = st.fts
         /\ lastRet' = Ret("sweep_deletions", None, st.changes)
  /\ UNCHANGED <<dbState, fileVars, likeVars, ocrVars, indexVars>>

SweepDeletions ==
  /\ sweep_deletions
  /\ UNCHANGED sweepVars

----
\* DB::search

SearchTypes == {"Simple", "Match", "Glob"}

\* Vec<&str>::join(" ")
RECURSIVE Join(_)
Join(terms) ==
  IF terms = <<>> THEN <<>>
  ELSE IF Len(terms) = 1 THEN Head(terms)
  ELSE Head(terms) \o <<" ">> \o Join(Tail(terms))

\* The text bound to ?1: for Simple the joined terms with '*' replaced by
\* '\*' (the surrounding double quotes make it one FTS5 phrase), otherwise
\* the joined terms.
SearchQuery(queries, kind) ==
  IF kind = "Simple" THEN Replace(Join(queries), "*", <<"\\", "*">>)
  ELSE Join(queries)

LowerAll(s) == [i \in 1..Len(s) |-> Lower(s[i])]

\* needle occurs in hay as a contiguous run.
Contains(hay, needle) ==
  \E k \in 0..(Len(hay) - Len(needle)) :
    SubSeq(hay, k + 1, k + Len(needle)) = needle

\* An FTS5 phrase under tokenize='trigram case_sensitive 0': the phrase's
\* trigrams must occur consecutively, that is the phrase is a substring up
\* to case; a phrase shorter than three characters has no trigram and
\* matches no row.
PhraseMatch(content, phrase) ==
  /\ Len(phrase) >= 3
  /\ Contains(LowerAll(content), LowerAll(phrase))

\* Splitting on the character sep.
RECURSIVE Split(_, _)
Split(s, sep) ==
  IF \A i \in 1..Len(s) : s[i] # sep THEN <<s>>
  ELSE LET k == CHOOSE i \in 1..Len(s) :
                  s[i] = sep /\ \A j \in 1..(i - 1) : s[j] # sep
       IN  <<SubSeq(s, 1, k - 1)>> \o Split(SubSeq(s, k + 1, Len(s)), sep)

Letters == {"a", "c", "t", "A", "T"}

\* The FTS5 query syntax as far as the model uses it: barewords separated
\* by blanks, an implicit AND of one-word phrases. Anything else is a
\* syntax error.
MatchWords(query) == Split(query, " ")

MatchSyntaxOk(query) ==
  \A i \in 1..Len(MatchWords(query)) :
    LET w == MatchWords(query)[i]
    IN  w # <<>> /\ \A j \in 1..Len(w) : w[j] \in Letters

\* SQLite's GLOB (patternCompare, case sensitive) with '*' and '?'.
RECURSIVE Glob(_, _)
Glob(pat, str) ==
  IF pat = <<>> THEN str = <<>>
  ELSE IF Head(pat) = "*"
    THEN \E k \in 0..Len(str) : Glob(Tail(pat), SubSeq(str, k + 1, Len(str)))
  ELSE IF Head(pat) = "?"
    THEN str # <<>> /\ Glob(Tail(pat), Tail(str))
  ELSE str # <<>> /\ Head(pat) = Head(str) /\ Glob(Tail(pat), Tail(str))

\* WHERE images_fts.content {MATCH | GLOB} ?1
ContentMatches(content, query, kind) ==
  CASE kind = "Simple" -> PhraseMatch(content, query)
    [] kind = "Match" ->
         \A i \in 1..Len(MatchWords(query)) :
           PhraseMatch(content, MatchWords(query)[i])
    [] kind = "Glob" -> Glob(query, content)

\* rust_glob(?4 || '/**', images.path) for a literal directory ?4.
rust_glob_excluded(exclude_glob, path) == Under(path, exclude_glob)

\* The join condition images.path LIKE ?2 ESCAPE '#'.
path_scope(path, prefix) == Like(path_to_like(prefix), path)

\* The rows the SELECT produces before ORDER BY and LIMIT: live FTS
\* entries joined to images on rowid = id.
SearchHits(queries, path, kind, exclude_glob) ==
  LET query == SearchQuery(queries, kind)
  IN  {r \in images :
         /\ \E e \in BagToSet(images_fts) :
              e[1] = r.id /\ ContentMatches(e[2], query, kind)
         /\ path_scope(r.path, path)
         /\ exclude_glob # NoDir => ~rust_glob_excluded(exclude_glob, r.path)}

\* ORDER BY RANK, images.modtime DESC. The rank is FTS5's bm25 score, which
\* the model leaves open except that rows of equal content score equally;
\* a GLOB pattern without a run of three literal characters is answered
\* by a scan, for which rank is NULL in every row.
RankTie(kind, r1, r2) == kind = "Glob" \/ r1.content = r2.content

\* ORDER BY RANK, images.modtime ASC.
Ordered_modtime_asc(seq, kind) ==
  \A i, j \in 1..Len(seq) :
    (i < j /\ RankTie(kind, seq[i], seq[j]))
      => seq[i].modtime <= seq[j].modtime

Ordered(seq, kind) ==
  \A i, j \in 1..Len(seq) :
    (i < j /\ RankTie(kind, seq[i], seq[j]))
      => seq[i].modtime >= seq[j].modtime

\* db.rs SearchResult, without the snippet text.
SearchResult(r) == [path |-> r.path, time |-> r.modtime]

Search(queries, path, limit, kind, exclude_glob) ==
  /\ dbState = "open"
  /\ IF kind = "Match" /\ ~MatchSyntaxOk(SearchQuery(queries, kind))
     THEN lastRet' = Ret("search", <<queries, path, limit, kind, exclude_glob>>,
                         [ok |-> FALSE, rows |-> <<>>])
     ELSE LET hits == SearchHits(queries, path, kind, exclude_glob)
              n == Cardinality(hits)
          IN  \E seq \in [1..n -> hits] :
                /\ \A i, j \in 1..n : i # j => seq[i] # seq[j]
                /\ Ordered(seq, kind)
                /\ lastRet' = Ret("search",
                     <<queries, path, limit, kind, exclude_glob>>,
                     [ok |-> TRUE,
                      rows |-> [i \in 1..(IF limit < n THEN limit ELSE n) |->
                                  SearchResult(seq[i])]])
  /\ UNCHANGED <<dbState, fileVars, tableVars, sweepVars, likeVars, ocrVars, indexVars>>

TermCat == <<"c", "a", "t">>
TermAt == <<"A", "T">>
TermGlob == <<"*", "a", "t", "*">>
QuerySets == {<<TermCat>>, <<TermAt>>, <<TermAt, TermAt>>, <<TermGlob>>}

----
\* Helpers

\* Option<T>: None is the empty sequence, Some(x) the sequence of x.
Absent == <<>>
Some(x) == <<x>>

Min(a, b) == IF a <= b THEN a ELSE b
Range(s) == {s[i] : i \in 1..Len(s)}

----
\* The OCR adapter (ocr.rs)

PsmMax == 13
SparseText == 11
EngineDefaultPsm == 6
MaxText == 7
MaxWorkers == 2

\* A language code is a sequence of characters; "e'" stands for a letter
\* outside ASCII, which takes two bytes.
NonAscii == "e'"
ByteLen(s) == Len(s) + Cardinality({i \in 1..Len(s) : s[i] = NonAscii})
is_ascii(s) == \A i \in 1..Len(s) : s[i] # NonAscii

to_ascii_lowercase(s) ==
  [i \in 1..Len(s) |->
     CASE s[i] = "E" -> "e" [] s[i] = "N" -> "n" [] s[i] = "G" -> "g"
       [] OTHER -> s[i]]

LangEng == <<"e", "n", "g">>
Langs ==
  {LangEng, <<"E", "N", "G">>, <<"d", "e", "u">>, <<"e", "n">>,
   <<"e", "/", "g">>, <<"e'", "n">>}

\* The languages whose data the engine can load.
Tessdata == {LangEng}

\* if lang.len() != 3 || lang.contains(['.', '/', '\\']) || !lang.is_ascii()
InvalidLanguage(lang) ==
  \/ ByteLen(lang) # 3
  \/ \E i \in 1..Len(lang) : lang[i] \in {".", "/", "\\"}
  \/ ~is_ascii(lang)

Psms == {Absent} \cup {Some(n) : n \in 0..PsmMax}

\* leptess.raw.set_page_seg_mode(psm), called when a psm is given
set_page_seg_mode(mode, psm) == IF psm # Absent THEN psm[1] ELSE mode

\* leptess.raw.set_variable(TesseditPagesegMode, "11")
set_pageseg_variable(mode) == SparseText

\* Ocr::new: the language check, TessApi::new, set_page_seg_mode(psm) when a
\* psm is given, then set_variable(TesseditPagesegMode, "11") in every case.
Ocr_new(lang, psm) ==
  IF InvalidLanguage(lang)
    THEN [state |-> "failed", err |-> "InvalidLanguage", lang |-> lang,
          psm |-> psm, mode |-> EngineDefaultPsm]
  ELSE IF to_ascii_lowercase(lang) \notin Tessdata
    THEN [state |-> "failed", err |-> "OcrInit", lang |-> lang,
          psm |-> psm, mode |-> EngineDefaultPsm]
  ELSE [state |-> "ready", err |-> "", lang |-> lang, psm |-> psm,
        mode |-> set_pageseg_variable(set_page_seg_mode(EngineDefaultPsm, psm))]

\* str::replace(from, to) for a two-character from: left to right, without
\* looking again at what was already replaced.
RECURSIVE replace_str(_, _, _)
replace_str(s, from, to) ==
  IF Len(s) < Len(from) THEN s
  ELSE IF SubSeq(s, 1, Len(from)) = from
    THEN to \o replace_str(SubSeq(s, Len(from) + 1, Len(s)), from, to)
  ELSE <<Head(s)>> \o replace_str(Tail(s), from, to)

\* get_utf8_text()?.replace("\n\n", "\n")
collapse(text) == replace_str(text, <<"\n", "\n">>, <<"\n">>)

\* The texts the engine recognises in the model's images.
EngineTexts == UNION {[1..n -> {"a", "\n"}] : n \in 0..MaxText}

NoOcr ==
  [state |-> "none", err |-> "", lang |-> <<>>, psm |-> Absent,
   mode |-> EngineDefaultPsm]
NoScan == [state |-> "none", engine |-> <<>>, text |-> <<>>]

\* The rayon pool: its threads, and the parallel map before any chunk.
\* A worker is "idle", or holds the adapter its job made with the init
\* closure ("ready"), or is inside ocr.scan with it ("scanning").
Workers == 1..MaxWorkers
NoItem == <<>>
IdleWorker == [state |-> "idle", adapter |-> 0, item |-> NoItem]
NoPool ==
  [phase |-> "between", current |-> <<>>, kept |-> <<>>, queue |-> {},
   ok |-> {}, failed |-> {}, made |-> 0,
   workers |-> [w \in Workers |-> IdleWorker]]

OcrIdle ==
  /\ ocr = NoOcr
  /\ ocrOut = NoScan
  /\ pool = NoPool

OcrNew(lang, psm) ==
  /\ ocr.state = "none"
  /\ ocr' = Ocr_new(lang, psm)
  /\ UNCHANGED <<ocrOut, pool>>
  /\ UNCHANGED <<dbState, fileVars, tableVars, lastRet, sweepVars, likeVars,
                 indexVars>>

\* Ocr::scan: Err when the image cannot be read or recognition fails,
\* otherwise the recognised text with "\n\n" replaced by "\n".
OcrScan(text, ok) ==
  /\ ocr.state = "ready"
  /\ ocrOut.state = "none"
  /\ ocrOut' = IF ok THEN [state |-> "ok", engine |-> text, text |-> collapse(text)]
               ELSE [state |-> "err", engine |-> <<>>, text |-> <<>>]
  /\ UNCHANGED <<ocr, pool>>
  /\ UNCHANGED <<dbState, fileVars, tableVars, lastRet, sweepVars, likeVars,
                 indexVars>>

\* The adapter is dropped.
OcrDrop ==
  /\ ocr.state # "none"
  /\ ocr' = NoOcr
  /\ ocrOut' = NoScan
  /\ UNCHANGED pool
  /\ UNCHANGED <<dbState, fileVars, tableVars, lastRet, sweepVars, likeVars,
                 indexVars>>

----
\* index_dir (index.rs), as main runs it over the current directory

MaxRuns == 3
MaxFaultRuns == 2
MaxCleanupRuns == 2
MaxPoolRuns == 2
MaxStaleRuns == 3
MaxMainRuns == 2
MaxTake == 3
MaxChunk == 2
MaxScanLimit == 1

\* env::current_dir() and the entries below it. NonUtf8 stands for a byte
\* sequence of a file name that is no valid Unicode.
Cwd == DirT
NonUtf8 == "xFF"
FileA == Cwd \o <<"/", "a", ".", "p", "n", "g">>
FileB == Cwd \o <<"/", "b", ".", "p", "n", "g">>
FileUpper == Cwd \o <<"/", "c", ".", "P", "N", "G">>
FileText == Cwd \o <<"/", "d", ".", "t", "x", "t">>
DirCache == Cwd \o <<"/", ".", "c", "a", "c", "h", "e">>
FileCached == DirCache \o <<"/", "e", ".", "p", "n", "g">>
DirSub == Cwd \o <<"/", "s">>
FileSub == DirSub \o <<"/", "f", ".", "j", "p", "g">>
FileBad == Cwd \o <<"/", "g", ".", NonUtf8>>
FileLocked == Cwd \o <<"/", "h", ".", "g", "i", "f">>
FileCorrupt == Cwd \o <<"/", "i", ".", "w", "e", "b", "p">>

\* The entries in the order WalkDir visits them: a directory, then what is
\* in it.
Tree ==
  <<Cwd, FileA, FileB, FileUpper, FileText, DirCache, FileCached,
    DirSub, FileSub, FileBad, FileLocked, FileCorrupt>>
TreeDirs == {Cwd, DirCache, DirSub}
TreeFiles == Range(Tree) \ TreeDirs

\* The files that are written and removed while the index is in use.
FsPaths == {FileA, FileB}

\* entry.depth(): the root has depth 0.
depth(p) ==
  Cardinality({i \in 1..Len(p) : p[i] = "/"})
    - Cardinality({i \in 1..Len(Cwd) : Cwd[i] = "/"})

\* Path::file_name and Path::extension: what follows the last dot of the
\* file name, a dot at its start aside.
file_name(p) ==
  LET slashes == {i \in 1..Len(p) : p[i] = "/"}
      last == CHOOSE i \in slashes : \A j \in slashes : j <= i
  IN  SubSeq(p, last + 1, Len(p))

extension(p) ==
  LET name == file_name(p)
      dots == {i \in 2..Len(name) : name[i] = "."}
  IN  IF dots = {} THEN Absent
      ELSE LET last == CHOOSE i \in dots : \A j \in dots : j <= i
           IN  Some(SubSeq(name, last + 1, Len(name)))

\* OsStr::to_str is Some for valid Unicode only.
to_str_is_some(s) == \A i \in 1..Len(s) : s[i] # NonUtf8

\* let indexed_filetypes = ["png", "jpeg", "jpg", "gif", "webp"];
indexed_filetypes ==
  {<<"p", "n", "g">>, <<"j", "p", "e", "g">>, <<"j", "p", "g">>,
   <<"g", "i", "f">>, <<"w", "e", "b", "p">>}

\* main.rs: the built-in patterns, and -x PATTERN as */PATTERN.
PatCache == <<"*", "/", ".", "c", "a", "c", "h", "e">>
PatThumb == <<"*", "/", ".", "t", "h", "u", "m", "b", "*">>
PatB == <<"*", "/", "b", ".", "p", "n", "g">>
PatSub == <<"*", "/", "s">>
ExcludeDefault == <<PatCache, PatThumb>>

\* glob::Pattern::matches_path with the default MatchOptions: '*' matches
\* any run of characters, separators and leading dots included.
matches_path(pattern, path) == Glob(pattern, path)

\* The filter_entry predicate: no exclude pattern matches the entry's path.
filter_entry(p, exclude) ==
  ~\E i \in 1..Len(exclude) : matches_path(exclude[i], p)

\* The exclude lists the runs of the model are started with.
ExcludeLists ==
  {ExcludeDefault, ExcludeDefault \o <<PatB>>, ExcludeDefault \o <<PatSub>>}

\* depth, extension and filter_entry of the entries of the tree, tabulated.
Depths == [p \in Range(Tree) |-> depth(p)]
Extensions == [p \in Range(Tree) |-> extension(p)]
Passing == [x \in ExcludeLists |-> {p \in Range(Tree) : filter_entry(p, x)}]

\* An entry the directory holds at the moment it is read.
exists(p) == p \in TreeDirs \/ files[p] # 0

\* Width and height in the header of each image file.
Dimensions(p) == IF p = FileB THEN <<2, 1>> ELSE <<1, 1>>

\* ImageReader::open is Ok: the file can be opened for reading. FileLocked
\* has metadata but no read permission.
can_open(p) == p # FileLocked

\* with_guessed_format and into_dimensions are Ok: the header can be read
\* and decoded. FileCorrupt holds no image.
can_decode(p) == p # FileCorrupt

\* The files no scan can read.
Unreadable == {FileLocked, FileCorrupt}

\* index.rs IndexOptions, the fields index_dir branches on, as the runs of
\* SpecIndex set them.
IndexOptions ==
  [cleanup : BOOLEAN,
   rescan : BOOLEAN,
   limit : {Absent} \cup {Some(n) : n \in 1..MaxScanLimit},
   chunksize : 1..MaxChunk,
   max_dimensions : {Absent, Some(<<1, 1>>)},
   lang : {LangEng},
   exclude : {ExcludeDefault},
   subdirs : {TRUE}]

DefaultOptions ==
  [cleanup |-> FALSE, rescan |-> FALSE, limit |-> Absent,
   chunksize |-> MaxChunk, max_dimensions |-> Absent,
   lang |-> LangEng, exclude |-> ExcludeDefault, subdirs |-> TRUE]

\* The walker polled for k more entries: WalkDir with max_depth(1) unless
\* subdirs, filter_entry (an excluded directory is not descended into), and
\* the filter_map that drops directories and files without an indexed
\* extension. raw holds the entries not yet visited; the extension check
\* panics on an extension that is no valid Unicode.
RECURSIVE walker(_, _, _, _)
walker(raw, k, opts, acc) ==
  IF k = 0 \/ raw = <<>>
    THEN [chunk |-> acc, rest |-> raw, panic |-> FALSE]
  ELSE LET p == Head(raw)
           rest == Tail(raw)
           below == SelectSeq(rest, LAMBDA q : ~Under(q, p))
       IN  IF ~exists(p) \/ (~opts.subdirs /\ Depths[p] > 1)
             THEN walker(rest, k, opts, acc)
           ELSE IF p \notin Passing[opts.exclude]
             THEN walker(IF p \in TreeDirs THEN below ELSE rest, k, opts, acc)
           ELSE IF p \in TreeDirs \/ Extensions[p] = Absent
             THEN walker(rest, k, opts, acc)
           ELSE IF ~to_str_is_some(Extensions[p][1])
             THEN [chunk |-> acc, rest |-> rest, panic |-> TRUE]
           ELSE IF Extensions[p][1] \in indexed_filetypes
             THEN walker(rest, k - 1, opts, Append(acc, p))
           ELSE walker(rest, k, opts, acc)

\* The chunks with the limit left out.
take_unlimited(chunksize, left) == chunksize

\* it.take(limit): how many entries a chunk may still pull, given what the
\* limit leaves.
take(chunksize, left) ==
  IF left = Absent THEN chunksize ELSE Min(chunksize, left[1])

\* The limit left after n more entries were pulled.
taken(left, n) == IF left = Absent THEN Absent ELSE Some(left[1] - n)

\* The closure of the second filter_map, applied to the entries of a chunk
\* in order: the max_dimensions check (a file that cannot be opened panics,
\* one that cannot be decoded or is too large is dropped), then rescan, then
\* is_indexed with unmark_file for the entries that are skipped.
RECURSIVE filter_map(_, _, _)
filter_map(acc, entries, opts) ==
  IF entries = <<>> \/ acc.panic THEN acc
  ELSE LET p == Head(entries)
           checked == opts.max_dimensions # Absent
           over == \/ Dimensions(p)[1] > opts.max_dimensions[1][1]
                   \/ Dimensions(p)[2] > opts.max_dimensions[1][2]
           next == IF checked /\ ~can_open(p)
                     THEN [acc EXCEPT !.panic = TRUE]
                   ELSE IF checked /\ (~can_decode(p) \/ over)
                     THEN [acc EXCEPT !.dropped = @ \cup {p}]
                   ELSE IF opts.rescan
                     THEN [acc EXCEPT !.kept = Append(@, p)]
                   ELSE IF is_indexed(acc.st.images, p, files[p])
                     THEN [acc EXCEPT !.st = unmark_stmt(@, p)]
                   ELSE [acc EXCEPT !.kept = Append(@, p)]
       IN  filter_map(next, Tail(entries), opts)

\* What ocr.scan makes of a file: the text it shows at its modification time.
scan(p) == [path |-> p, metadata |-> files[p], contents |-> TextAt(files[p])]

\* Path, modtime and content of the rows of the index.
RowData(rows) ==
  {[path |-> r.path, modtime |-> r.modtime, content |-> r.content] : r \in rows}

\* The files present in the directory.
PresentFiles == {p \in TreeFiles : files[p] # 0}

\* The record of a run: the entries the walker yielded, those it pulled into
\* a chunk with metadata, sent to OCR, failed to scan and dropped for their
\* dimensions, the counts its save_results calls returned, the rows it
\* started from, whether it repeats the run before it, the chunk collected
\* ahead of the one in work, what the limit leaves, the panic that ended it,
\* and whether it marked, saved or swept.
NoRun ==
  [yielded |-> {}, processed |-> {}, sent |-> {}, failed |-> {},
   dropped |-> {}, saves |-> <<>>, before |-> {}, repeats |-> FALSE,
   ahead |-> <<>>, left |-> Absent, err |-> "", marked |-> FALSE,
   swept |-> FALSE, chunks |-> <<>>]

\* A run with options opts repeats the run that just finished: no file was
\* written or removed since that run started, it sent every file to OCR and
\* none failed, and opts are its options with rescan off.
Repeats(opts) ==
  /\ pc = "done"
  /\ quiet
  /\ run.failed = {}
  /\ run.sent = PresentFiles
  /\ opts = [options EXCEPT !.rescan = FALSE]

\* Before the first run.
NoIndexRun ==
  /\ pc = "idle"
  /\ options = DefaultOptions
  /\ todo = <<>>
  /\ run = NoRun
  /\ quiet = TRUE
  /\ nruns = 0

IndexIdle ==
  /\ files = [p \in TreeFiles |->
                IF p \in FsPaths THEN TicksPerSec + TicksPerSec - 1 ELSE 0]
  /\ NoIndexRun

\* index_dir up to the body of the chunk loop: with cleanup the rows below
\* the current directory are marked, then the walker is polled for the
\* first chunk.
IndexStart(opts) ==
  /\ dbState = "open"
  /\ pc \in {"idle", "done", "panicked"}
  /\ nruns < MaxRuns
  /\ LET st == IF opts.cleanup THEN mark_stmts(Store, Cwd) ELSE Store
         w == walker(Tree, take(opts.chunksize, opts.limit), opts, <<>>)
     IN  /\ images' = st.images
         /\ images_fts' = st.fts
         /\ todo' = w.rest
         /\ pc' = IF w.panic THEN "panicked" ELSE "chunks"
         /\ run' = [NoRun EXCEPT !.before = RowData(images),
                                 !.repeats = Repeats(opts),
                                 !.yielded = Range(w.chunk),
                                 !.ahead = w.chunk,
                                 !.left = taken(opts.limit, Len(w.chunk)),
                                 !.err = IF w.panic THEN "Unicode" ELSE "",
                                 !.marked = opts.cleanup]
  /\ lastRet' = IF opts.cleanup THEN Ret("mark_for_deletion", Cwd, None)
                ELSE lastRet
  /\ options' = opts
  /\ quiet' = TRUE
  /\ nruns' = nruns + 1
  /\ UNCHANGED <<dbState, fileVars, sweepVars, likeVars, ocrVars, files>>

\* One turn of the chunk loop. The walker is polled for the chunk after the
\* one in work (tuple_windows holds two chunks); then metadata of the
\* entries, the skip filter, OCR of the entries that are left and
\* save_results of the results. bad: the files whose scan fails, besides
\* those that cannot be read. init:
\* whether the parallel map calls its init closure, which it does for every
\* chunk with an entry and may do for an empty one.
IndexChunk(bad, init) ==
  /\ dbState = "open"
  /\ pc = "chunks"
  /\ run.ahead # <<>>
  /\ LET w == walker(todo, take(options.chunksize, run.left), options, <<>>)
         chunk == SelectSeq(run.ahead, LAMBDA p : files[p] # 0)
         f == filter_map([st |-> Store, kept |-> <<>>, dropped |-> {},
                          panic |-> FALSE], chunk, options)
         engine == Ocr_new(options.lang, Absent)
         fails == (bad \cup Unreadable) \cap Range(f.kept)
         good == SelectSeq(f.kept, LAMBDA p : p \notin fails)
         results == [i \in 1..Len(good) |-> scan(good[i])]
         st == save_all([images |-> f.st.images, fts |-> f.st.fts,
                         changes |-> 0], results)
     IN  /\ bad \subseteq Range(f.kept)
         /\ f.kept # <<>> => init
         /\ todo' = w.rest
         /\ IF w.panic
              THEN /\ pc' = "panicked"
                   /\ run' = [run EXCEPT !.err = "Unicode"]
                   /\ UNCHANGED <<tableVars, lastRet>>
            ELSE IF f.panic \/ (init /\ engine.state # "ready")
              THEN /\ pc' = "panicked"
                   /\ images' = f.st.images
                   /\ images_fts' = f.st.fts
                   /\ run' = [run EXCEPT !.err = IF f.panic THEN "ImageOpen"
                                                ELSE engine.err,
                                         !.processed = @ \cup Range(chunk),
                                         !.dropped = @ \cup f.dropped]
                   /\ UNCHANGED lastRet
            ELSE /\ pc' = "chunks"
                 /\ images' = st.images
                 /\ images_fts' = st.fts
                 /\ lastRet' = Ret("save_results", results, st.changes)
                 /\ run' = [run EXCEPT !.processed = @ \cup Range(chunk),
                                       !.sent = @ \cup Range(f.kept),
                                       !.failed = @ \cup fails,
                                       !.dropped = @ \cup f.dropped,
                                       !.saves = Append(@, st.changes),
                                       !.chunks = Append(@, run.ahead),
                                       !.yielded = @ \cup Range(w.chunk),
                                       !.ahead = w.chunk,
                                       !.left = taken(@, Len(w.chunk))]
  /\ UNCHANGED <<dbState, fileVars, sweepVars, likeVars, ocrVars,
                 files, options, quiet, nruns>>

\* After the last chunk: sweep_deletions, whatever the options, and Ok(()).
IndexFinish ==
  /\ dbState = "open"
  /\ pc = "chunks"
  /\ run.ahead = <<>>
  /\ LET st == sweep_stmt(Store)
     IN  /\ images' = st.images
         /\ images_fts' = st.fts
         /\ lastRet' = Ret("sweep_deletions", None, st.changes)
  /\ pc' = "done"
  /\ run' = [run EXCEPT !.swept = TRUE]
  /\ UNCHANGED <<dbState, fileVars, sweepVars, likeVars, ocrVars,
                 files, options, todo, quiet, nruns>>

\* The directory changes: a file is written (created or modified) between
\* two runs, or removed at any time.
FsWrite(p, t) ==
  /\ pc # "chunks"
  /\ t > files[p]
  /\ files' = [files EXCEPT ![p] = t]
  /\ quiet' = FALSE
  /\ UNCHANGED <<dbState, fileVars, tableVars, lastRet, sweepVars, likeVars, ocrVars,
                 pc, options, todo, run, nruns>>

FsRemove(p) ==
  /\ files[p] # 0
  /\ files' = [files EXCEPT ![p] = 0]
  /\ quiet' = FALSE
  /\ UNCHANGED <<dbState, fileVars, tableVars, lastRet, sweepVars, likeVars, ocrVars,
                 pc, options, todo, run, nruns>>

NextIndex ==
  \/ Open
  \/ \E o \in IndexOptions : IndexStart(o)
  \/ \E bad \in SUBSET FsPaths, init \in BOOLEAN : IndexChunk(bad, init)
  \/ IndexFinish
  \/ \E p \in FsPaths, t \in WriteTicks : FsWrite(p, t)
  \/ \E p \in FsPaths : FsRemove(p)

----
\* The store driven through its public calls in any order

LikeIdle ==
  /\ likeP = <<>>
  /\ likeQ = <<>>
  /\ likePat = <<>>
  /\ likeRes = "unset"

Init ==
  /\ dbState = "closed"
  /\ userVersion \in Versions
  /\ hasTables = (userVersion = 2)
  /\ images = {}
  /\ images_fts = EmptyBag
  /\ lastRet = Ret("init", None, None)
  /\ markedDir = NoDir
  /\ unmarked = {}
  /\ LikeIdle
  /\ IndexIdle
  /\ OcrIdle

Next ==
  \/ Open
  \/ Close
  \/ \E p \in ApiPaths, m \in Metas : IsIndexed(p, m)
  \/ \E b \in Batches : SaveResults(b)
  \/ \E d \in ApiDirs : MarkForDeletion(d)
  \/ \E p \in ApiPaths : UnmarkFile(p)
  \/ SweepDeletions

Spec == Init /\ [][Next]_vars

----
\* A cleanup pass over the store, as tests::deletion makes it: rows are
\* saved, then mark_for_deletion(D), unmark_file for the paths to keep and
\* sweep_deletions. markedDir and unmarked remember D and the paths kept.

PassSave(results) ==
  /\ markedDir = NoDir
  /\ save_results(results)
  /\ UNCHANGED sweepVars

PassMark(dir) ==
  /\ mark_for_deletion(dir)
  /\ markedDir' = dir
  /\ unmarked' = {}

PassUnmark(path) ==
  /\ markedDir # NoDir
  /\ unmark_file(path)
  /\ unmarked' = unmarked \cup {path}
  /\ UNCHANGED markedDir

PassSweep ==
  /\ sweep_deletions
  /\ markedDir' = NoDir
  /\ unmarked' = {}

NextSweep ==
  \/ Open
  \/ \E b \in Batches : PassSave(b)
  \/ \E d \in ApiDirs : PassMark(d)
  \/ \E p \in ApiPaths : PassUnmark(p)
  \/ PassSweep

SpecSweep == Init /\ [][NextSweep]_vars

----
\* Searching a store that was filled by save_results

NextSearch ==
  \/ Open
  \/ \E b \in Batches : SaveResults(b)
  \/ \E q \in QuerySets, d \in ApiDirs, l \in 1..MaxLimit, k \in SearchTypes,
        x \in {NoDir, DirT} :
       Search(q, d, l, k, x)

SpecSearch == Init /\ [][NextSearch]_vars

----
\* path_to_like and LIKE ... ESCAPE '#' on arbitrary strings

Alphabet == {"/", "t", "T", "%", "_", "#"}

Strings == UNION {[1..n -> Alphabet] : n \in 0..MaxLen}

StoreIdle ==
  /\ dbState = "closed"
  /\ userVersion = 0
  /\ hasTables = FALSE
  /\ images = {}
  /\ images_fts = EmptyBag
  /\ lastRet = Ret("init", None, None)
  /\ markedDir = NoDir
  /\ unmarked = {}
  /\ IndexIdle
  /\ OcrIdle

InitLike ==
  /\ StoreIdle
  /\ likeP \in Strings
  /\ likeQ \in Strings
  /\ likePat = <<>>
  /\ likeRes = "unset"

\* The parameter bound to ?1 / ?2: path_to_like(p).
BindPattern ==
  /\ likePat = <<>>
  /\ likePat' = path_to_like(likeP)
  /\ UNCHANGED <<dbState, fileVars, tableVars, lastRet, sweepVars,
                 indexVars, ocrVars, likeP, likeQ, likeRes>>

\* The comparison  q LIKE ?1 ESCAPE '#'.
EvalLike ==
  /\ likePat # <<>>
  /\ likeRes = "unset"
  /\ likeRes' = IF Like(likePat, likeQ) THEN "match" ELSE "nomatch"
  /\ UNCHANGED <<dbState, fileVars, tableVars, lastRet, sweepVars,
                 indexVars, ocrVars, likeP, likeQ, likePat>>

NextLike == BindPattern \/ EvalLike

SpecLike == InitLike /\ [][NextLike]_vars

----
\* Repeated index_dir runs over a directory that changes between them

SpecIndex == Init /\ [][NextIndex]_vars

----
\* The adapter constructed, used for one scan and dropped

NextOcr ==
  \/ \E l \in Langs, p \in Psms : OcrNew(l, p)
  \/ \E t \in EngineTexts, ok \in BOOLEAN : OcrScan(t, ok)
  \/ OcrDrop

InitOcr == StoreIdle /\ LikeIdle

SpecOcr == InitOcr /\ [][NextOcr]_vars

----
\* One run over a directory that holds any of the entries of the tree

WalkOptions ==
  [cleanup : {FALSE},
   rescan : {FALSE},
   limit : {Absent},
   chunksize : 1..MaxChunk,
   max_dimensions : {Absent},
   lang : {LangEng},
   exclude : ExcludeLists,
   subdirs : BOOLEAN]

InitWalk ==
  /\ dbState = "closed"
  /\ userVersion = 0
  /\ hasTables = FALSE
  /\ images = {}
  /\ images_fts = EmptyBag
  /\ lastRet = Ret("init", None, None)
  /\ markedDir = NoDir
  /\ unmarked = {}
  /\ LikeIdle
  /\ OcrIdle
  /\ files \in [TreeFiles -> {0, TicksPerSec + TicksPerSec - 1}]
  /\ NoIndexRun

\* The one run of the process.
WalkStart(opts) == nruns = 0 /\ IndexStart(opts)

NextWalk ==
  \/ Open
  \/ \E o \in WalkOptions : WalkStart(o)
  \/ \E bad \in SUBSET FsPaths, init \in BOOLEAN : IndexChunk(bad, init)
  \/ IndexFinish

SpecWalk == InitWalk /\ [][NextWalk]_vars

----
\* Runs with a language that is refused or not installed, between changes
\* of the directory and of the exclude list

FaultOptions ==
  [cleanup : BOOLEAN,
   rescan : {FALSE},
   limit : {Absent},
   chunksize : 1..MaxChunk,
   max_dimensions : {Absent},
   lang : {LangEng, <<"d", "e", "u">>, <<"e", "n">>},
   exclude : {ExcludeDefault, ExcludeDefault \o <<PatB>>},
   subdirs : {TRUE}]

\* A run of a process, the one before it ended or panicked.
FaultStart(opts) == nruns < MaxFaultRuns /\ IndexStart(opts)

NextFaults ==
  \/ Open
  \/ \E o \in FaultOptions : FaultStart(o)
  \/ \E bad \in SUBSET FsPaths, init \in BOOLEAN : IndexChunk(bad, init)
  \/ IndexFinish
  \/ \E p \in FsPaths, t \in WriteTicks : FsWrite(p, t)
  \/ \E p \in FsPaths : FsRemove(p)

SpecFaults == Init /\ [][NextFaults]_vars

----
\* Runs with and without cleanup, between changes of the directory and of
\* the exclude list

CleanupOptions ==
  [cleanup : BOOLEAN,
   rescan : {FALSE},
   limit : {Absent},
   chunksize : {1, MaxChunk},
   max_dimensions : {Absent},
   lang : {LangEng},
   exclude : {ExcludeDefault, ExcludeDefault \o <<PatB>>},
   subdirs : {TRUE}]

\* A run of a process, the one before it ended.
CleanupStart(opts) == nruns < MaxCleanupRuns /\ IndexStart(opts)

NextCleanup ==
  \/ Open
  \/ \E o \in CleanupOptions : CleanupStart(o)
  \/ \E bad \in SUBSET FsPaths, init \in BOOLEAN : IndexChunk(bad, init)
  \/ IndexFinish
  \/ \E p \in FsPaths, t \in WriteTicks : FsWrite(p, t)
  \/ \E p \in FsPaths : FsRemove(p)

SpecCleanup == Init /\ [][NextCleanup]_vars

----
\* One run, with and without max_dimensions, over a directory that holds
\* any of the image files

DimsOptions ==
  [cleanup : {FALSE},
   rescan : {FALSE},
   limit : {Absent},
   chunksize : {1, MaxChunk},
   max_dimensions : {Absent, Some(<<1, 1>>)},
   lang : {LangEng},
   exclude : {ExcludeDefault},
   subdirs : {TRUE}]

ImageFiles == {FileA, FileB, FileSub, FileLocked, FileCorrupt}

InitDims ==
  /\ dbState = "closed"
  /\ userVersion = 0
  /\ hasTables = FALSE
  /\ images = {}
  /\ images_fts = EmptyBag
  /\ lastRet = Ret("init", None, None)
  /\ markedDir = NoDir
  /\ unmarked = {}
  /\ LikeIdle
  /\ OcrIdle
  /\ \E present \in SUBSET ImageFiles :
       files = [p \in TreeFiles |->
                  IF p \in present THEN TicksPerSec + TicksPerSec - 1 ELSE 0]
  /\ NoIndexRun

\* The one run of the process.
DimsStart(opts) == nruns = 0 /\ IndexStart(opts)

NextDims ==
  \/ Open
  \/ \E o \in DimsOptions : DimsStart(o)
  \/ \E bad \in SUBSET FsPaths, init \in BOOLEAN : IndexChunk(bad, init)
  \/ IndexFinish

SpecDims == InitDims /\ [][NextDims]_vars

----
\* One run with a scan limit and a chunk size over a directory that holds
\* any of the image files and the file with the non-Unicode name

ChunkOptions ==
  [cleanup : {FALSE},
   rescan : {FALSE},
   limit : {Absent} \cup {Some(n) : n \in 0..MaxTake},
   chunksize : 1..MaxChunk,
   max_dimensions : {Absent},
   lang : {LangEng},
   exclude : {ExcludeDefault},
   subdirs : {TRUE}]

InitChunks ==
  /\ dbState = "closed"
  /\ userVersion = 0
  /\ hasTables = FALSE
  /\ images = {}
  /\ images_fts = EmptyBag
  /\ lastRet = Ret("init", None, None)
  /\ markedDir = NoDir
  /\ unmarked = {}
  /\ LikeIdle
  /\ OcrIdle
  /\ \E present \in SUBSET (ImageFiles \cup {FileBad}) :
       files = [p \in TreeFiles |->
                  IF p \in present THEN TicksPerSec + TicksPerSec - 1 ELSE 0]
  /\ NoIndexRun

\* The one run of the process.
ChunkStart(opts) == nruns = 0 /\ IndexStart(opts)

NextChunks ==
  \/ Open
  \/ \E o \in ChunkOptions : ChunkStart(o)
  \/ \E bad \in SUBSET FsPaths, init \in BOOLEAN : IndexChunk(bad, init)
  \/ IndexFinish

SpecChunks == InitChunks /\ [][NextChunks]_vars

----
\* The store's writing calls with the ways they fail

\* mark_for_deletion with the directory check moved behind the first UPDATE.
mark_checked_late(st, path) ==
  IF ~is_dir(path)
    THEN [st |-> mark_stmts_clearonly(st, path), panic |-> TRUE]
  ELSE [st |-> mark_stmts(st, path), panic |-> FALSE]

\* DB::mark_for_deletion from its first line: the panic for a path that is
\* no directory, then the two UPDATE statements.
mark_checked(st, path) ==
  IF ~is_dir(path) THEN [st |-> st, panic |-> TRUE]
  ELSE [st |-> mark_stmts(st, path), panic |-> FALSE]

\* The upserts of a batch without the transaction around them: the
\* statements before the failing one stay.
transaction_autocommit(st, results, fail) ==
  IF fail = 0 THEN [st |-> save_all(st, results), panic |-> FALSE]
  ELSE [st |-> save_all(st, SubSeq(results, 1, Min(fail - 1, Len(results)))),
        panic |-> TRUE]

\* The body of DB::save_results: conn.transaction(), the upserts, commit.
\* fail = 0: every statement succeeds; fail = k: the k-th execute fails, or
\* the commit for k = Len(results) + 1, the unwrap panics and the
\* transaction, dropped uncommitted, is rolled back.
transaction(st, results, fail) ==
  IF fail = 0 THEN [st |-> save_all(st, results), panic |-> FALSE]
  ELSE [st |-> st, panic |-> TRUE]

\* The calls as actions; a panic ends the process.
MarkChecked(path) ==
  /\ dbState = "open"
  /\ LET c == mark_checked(Store, path)
     IN  /\ images' = c.st.images
         /\ images_fts' = c.st.fts
         /\ dbState' = IF c.panic THEN "closed" ELSE "open"
         /\ lastRet' = IF c.panic
                         THEN Ret("mark_for_deletion_panic", path, None)
                       ELSE Ret("mark_for_deletion", path, None)
  /\ UNCHANGED <<fileVars, sweepVars, likeVars, ocrVars, indexVars>>

SaveTransaction(results, fail) ==
  /\ dbState = "open"
  /\ LET c == transaction([images |-> images, fts |-> images_fts,
                           changes |-> 0], results, fail)
     IN  /\ \A r \in c.st.images : r.id <= MaxId
         /\ images' = c.st.images
         /\ images_fts' = c.st.fts
         /\ dbState' = IF c.panic THEN "closed" ELSE "open"
         /\ lastRet' = IF c.panic
                         THEN Ret("save_results_panic", results, fail)
                       ELSE Ret("save_results", results, c.st.changes)
  /\ UNCHANGED <<fileVars, sweepVars, likeVars, ocrVars, indexVars>>

NextFail ==
  \/ Open
  \/ \E b \in Batches, k \in 0..(MaxBatch + 1) :
       k <= Len(b) + 1 /\ SaveTransaction(b, k)
  \/ \E p \in ApiDirs \cup ApiPaths : MarkChecked(p)

SpecFail == Init /\ [][NextFail]_vars

----
\* main: the indexing, when --index is given, and then the search

MainOptions ==
  [cleanup : BOOLEAN,
   rescan : {FALSE},
   limit : {Absent},
   chunksize : {1, MaxChunk},
   max_dimensions : {Absent},
   lang : {LangEng, <<"d", "e", "u">>},
   exclude : {ExcludeDefault},
   subdirs : {TRUE}]

\* The search with the guard left out that index_dir has returned.
search_reached_early == pc \in {"idle", "chunks", "done", "panicked"}

\* main has come to the search: index_dir was not asked for, or it has
\* returned Ok; an Err leaves main through ?, a panic ends the process.
search_reached == pc \in {"idle", "done"}

\* An invocation with --index.
MainIndex(opts) == nruns < MaxMainRuns /\ IndexStart(opts)

\* An invocation without --index, after an invocation that has ended.
MainPlain ==
  /\ pc \in {"done", "panicked"}
  /\ pc' = "idle"
  /\ UNCHANGED <<dbState, fileVars, tableVars, lastRet, sweepVars, likeVars,
                 ocrVars, files, options, todo, run, quiet, nruns>>

\* db.search over the current directory and the printing of its rows.
MainSearch(queries, limit, kind) ==
  /\ search_reached
  /\ Search(queries, Cwd, limit, kind, NoDir)

NextMain ==
  \/ Open
  \/ \E o \in MainOptions : MainIndex(o)
  \/ \E bad \in SUBSET FsPaths, init \in BOOLEAN : IndexChunk(bad, init)
  \/ IndexFinish
  \/ MainPlain
  \/ \E q \in QuerySets, k \in SearchTypes : MainSearch(q, MaxLimit, k)
  \/ \E p \in FsPaths : FsRemove(p)

SpecMain == Init /\ [][NextMain]_vars

----
\* The chunk loop thread by thread.  The coordinating thread runs the loop
\* body in order: it filters the chunk collected one step ahead, hands the
\* kept files to the parallel map, waits in collect() until the map has
\* ended, saves the results and only then goes round the loop again.  Each
\* job of the map makes its own adapter with the init closure and passes it
\* by exclusive reference to every scan it runs.

\* collect() returns when every job of the map has ended.
joined_early(workers) == TRUE
joined(workers) == \A w \in Workers : workers[w].state = "idle"

\* The next turn of the for loop begins when the body has ended, that is
\* after save_results of the chunk before.
chunk_begin_early(phase) == phase \in {"between", "ocr"}
chunk_begin(phase) == phase = "between"

\* The init closure builds a new adapter on every call.
shared_adapter(made) == 1
new_adapter(made) == made + 1

Scanning == {w \in Workers : pool.workers[w].state = "scanning"}

\* The coordinating thread begins a turn: the walker is pulled for the chunk
\* after this one, the metadata of this chunk is read, and the second filter
\* makes the store's is_indexed and unmark_file calls.
PoolFilter ==
  /\ dbState = "open"
  /\ pc = "chunks"
  /\ run.ahead # <<>>
  /\ chunk_begin(pool.phase)
  /\ LET w == walker(todo, take(options.chunksize, run.left), options, <<>>)
         chunk == SelectSeq(run.ahead, LAMBDA p : files[p] # 0)
         f == filter_map([st |-> Store, kept |-> <<>>, dropped |-> {},
                          panic |-> FALSE], chunk, options)
     IN  /\ todo' = w.rest
         /\ IF w.panic
              THEN /\ pc' = "panicked"
                   /\ run' = [run EXCEPT !.err = "Unicode"]
                   /\ UNCHANGED <<tableVars, pool>>
            ELSE /\ pc' = IF f.panic THEN "panicked" ELSE "chunks"
                 /\ images' = f.st.images
                 /\ images_fts' = f.st.fts
                 /\ run' = [run EXCEPT !.err = IF f.panic THEN "ImageOpen"
                                                ELSE @,
                                       !.processed = @ \cup Range(chunk),
                                       !.dropped = @ \cup f.dropped,
                                       !.yielded = @ \cup Range(w.chunk),
                                       !.ahead = w.chunk,
                                       !.left = taken(@, Len(w.chunk))]
                 /\ pool' = IF f.panic THEN pool
                            ELSE [pool EXCEPT !.phase = "ocr",
                                              !.current = run.ahead,
                                              !.kept = f.kept,
                                              !.queue = Range(f.kept),
                                              !.ok = {},
                                              !.failed = {}]
  /\ UNCHANGED <<dbState, fileVars, sweepVars, likeVars, ocr, ocrOut,
                 lastRet, files, options, quiet, nruns>>

\* A job of the map starts on pool thread w and calls the init closure:
\* Ocr::new(lang, debug).unwrap().
WorkerInit(w) ==
  /\ pc = "chunks"
  /\ pool.phase = "ocr"
  /\ pool.queue # {}
  /\ pool.workers[w].state = "idle"
  /\ LET engine == Ocr_new(options.lang, Absent)
     IN  IF engine.state # "ready"
           THEN /\ pc' = "panicked"
                /\ run' = [run EXCEPT !.err = engine.err]
                /\ UNCHANGED pool
           ELSE /\ pool' = [pool EXCEPT
                              !.made = new_adapter(@),
                              !.workers[w] =
                                [state |-> "ready",
                                 adapter |-> new_adapter(pool.made),
                                 item |-> NoItem]]
                /\ UNCHANGED <<pc, run>>
  /\ UNCHANGED <<dbState, fileVars, tableVars, sweepVars, likeVars, ocr,
                 ocrOut, lastRet, files, options, todo, quiet, nruns>>

\* The job takes one of the files left to it and enters ocr.scan with its
\* adapter.
WorkerTake(w, p) ==
  /\ pc = "chunks"
  /\ pool.phase = "ocr"
  /\ p \in pool.queue
  /\ pool.workers[w].state = "ready"
  /\ pool' = [pool EXCEPT !.queue = @ \ {p},
                          !.workers[w].state = "scanning",
                          !.workers[w].item = p]
  /\ UNCHANGED <<dbState, fileVars, tableVars, sweepVars, likeVars, ocr,
                 ocrOut, lastRet, indexVars>>

\* ocr.scan returns: Ok makes an OcrResult, Err is reported and the file is
\* left out.
WorkerDone(w, good) ==
  /\ pool.workers[w].state = "scanning"
  /\ pool.workers[w].item \in Unreadable => ~good
  /\ pool' = [pool EXCEPT
                !.ok = IF good THEN @ \cup {pool.workers[w].item} ELSE @,
                !.failed = IF good THEN @ ELSE @ \cup {pool.workers[w].item},
                !.workers[w].state = "ready",
                !.workers[w].item = NoItem]
  /\ UNCHANGED <<dbState, fileVars, tableVars, sweepVars, likeVars, ocr,
                 ocrOut, lastRet, indexVars>>

\* The job has no file left: it ends and its adapter is dropped.
WorkerEnd(w) ==
  /\ pool.workers[w].state = "ready"
  /\ pool.queue = {}
  /\ pool' = [pool EXCEPT !.workers[w] = IdleWorker]
  /\ UNCHANGED <<dbState, fileVars, tableVars, sweepVars, likeVars, ocr,
                 ocrOut, lastRet, indexVars>>

\* collect() has returned on the coordinating thread, which saves the
\* results in the order of the chunk.
PoolSave ==
  /\ dbState = "open"
  /\ pc = "chunks"
  /\ pool.phase = "ocr"
  /\ pool.queue = {}
  /\ joined(pool.workers)
  /\ LET good == SelectSeq(pool.kept, LAMBDA p : p \in pool.ok)
         results == [i \in 1..Len(good) |-> scan(good[i])]
         st == save_all([images |-> images, fts |-> images_fts,
                         changes |-> 0], results)
     IN  /\ images' = st.images
         /\ images_fts' = st.fts
         /\ lastRet' = Ret("save_results", results, st.changes)
         /\ run' = [run EXCEPT !.sent = @ \cup Range(pool.kept),
                               !.failed = @ \cup pool.failed,
                               !.saves = Append(@, st.changes),
                               !.chunks = Append(@, pool.current)]
  /\ pool' = [pool EXCEPT !.phase = "between"]
  /\ UNCHANGED <<dbState, fileVars, sweepVars, likeVars, ocr, ocrOut,
                 files, pc, options, todo, quiet, nruns>>

\* The loop has ended: sweep_deletions on the coordinating thread.
PoolFinish == pool.phase = "between" /\ IndexFinish

PoolOptions ==
  [cleanup : BOOLEAN,
   rescan : {FALSE},
   limit : {Absent},
   chunksize : {1, MaxChunk},
   max_dimensions : {Absent},
   lang : {LangEng, <<"d", "e", "u">>},
   exclude : {ExcludeDefault},
   subdirs : {TRUE}]

PoolFiles == {FileA, FileB, FileSub}

InitPool ==
  /\ dbState = "closed"
  /\ userVersion = 0
  /\ hasTables = FALSE
  /\ images = {}
  /\ images_fts = EmptyBag
  /\ lastRet = Ret("init", None, None)
  /\ markedDir = NoDir
  /\ unmarked = {}
  /\ LikeIdle
  /\ OcrIdle
  /\ \E present \in SUBSET PoolFiles :
       files = [p \in TreeFiles |->
                  IF p \in present THEN TicksPerSec + TicksPerSec - 1 ELSE 0]
  /\ NoIndexRun

PoolStart(opts) ==
  /\ nruns < MaxPoolRuns
  /\ pool.phase = "between"
  /\ IndexStart(opts)

\* A panic has ended the process; the next process has a pool of its own.
PoolExit ==
  /\ pc = "panicked"
  /\ pc' = "idle"
  /\ pool' = NoPool
  /\ UNCHANGED <<dbState, fileVars, tableVars, sweepVars, likeVars, ocr,
                 ocrOut, lastRet, files, options, todo, run, quiet, nruns>>

NextPool ==
  \/ Open
  \/ \E o \in PoolOptions : PoolStart(o)
  \/ PoolFilter
  \/ \E w \in Workers : WorkerInit(w)
  \/ \E w \in Workers, p \in PoolFiles : WorkerTake(w, p)
  \/ \E w \in Workers, good \in BOOLEAN : WorkerDone(w, good)
  \/ \E w \in Workers : WorkerEnd(w)
  \/ PoolSave
  \/ PoolFinish
  \/ PoolExit

SpecPool == InitPool /\ [][NextPool]_vars

----
\* Runs that follow an interrupted run: a run with cleanup marks the rows
\* and panics at Ocr::new before its sweep; the store keeps the marks and the
\* next process starts from them.
StaleOptions ==
  [cleanup : BOOLEAN,
   rescan : {FALSE},
   limit : {Absent},
   chunksize : {MaxChunk},
   max_dimensions : {Absent},
   lang : {LangEng, <<"d", "e", "u">>},
   exclude : {ExcludeDefault},
   subdirs : {TRUE}]

\* A run of a process, the one before it ended or panicked.
StaleStart(opts) == nruns < MaxStaleRuns /\ IndexStart(opts)

NextStale ==
  \/ Open
  \/ \E o \in StaleOptions : StaleStart(o)
  \/ \E bad \in SUBSET FsPaths, init \in BOOLEAN : IndexChunk(bad, init)
  \/ IndexFinish
  \/ \E p \in FsPaths, t \in WriteTicks : FsWrite(p, t)
  \/ \E p \in FsPaths : FsRemove(p)

SpecStale == Init /\ [][NextStale]_vars

----
\* Claims about the store

\* A sweep_deletions step, and the rows it removed.
IsSweep == lastRet'.op = "sweep_deletions" /\ dbState = "open" /\ dbState' = "open"

\* C1: after mark_for_deletion(D) and unmark_file(p) for every p in S,
\* sweep_deletions deletes exactly the rows located under D whose path is
\* not in S, returns that number and leaves no marked row; a sweep with no
\* marked row returns 0 and deletes nothing.
C1_SweepExactlyUnderDir ==
  [][IsSweep =>
       /\ \A r \in images' : ~r.mark_delete
       /\ (\A r \in images : ~r.mark_delete)
            => (images' = images /\ lastRet'.val = 0)
       /\ markedDir # NoDir =>
            LET gone == {r \in images :
                           Under(r.path, markedDir) /\ r.path \notin unmarked}
            IN  /\ images' = images \ gone
                /\ lastRet'.val = Cardinality(gone)]_vars

\* Row r of the state before a step is still there after it, with at most
\* its deletion mark cleared.
KeptUnharmed(r) ==
  \E k \in images' :
    /\ k.id = r.id
    /\ k.path = r.path
    /\ k.modtime = r.modtime
    /\ k.content = r.content
    /\ (k.mark_delete => r.mark_delete)

\* C3: mark_for_deletion(D), the unmark_file calls after it and the
\* sweep_deletions that ends the pass never mark, change or delete a row
\* whose path is not located inside D.
C3_OutsideDirUntouched ==
  [][/\ markedDir' # NoDir =>
          \A r \in images : ~Under(r.path, markedDir') => KeptUnharmed(r)
     /\ (IsSweep /\ markedDir # NoDir) =>
          \A r \in images : ~Under(r.path, markedDir) => KeptUnharmed(r)]_vars

\* The last result of a batch for a path is the one the store ends up with.
LastFor(results, i) ==
  \A j \in (i + 1)..Len(results) : results[j].path # results[i].path

\* C4: is_indexed(path, meta) is true exactly when a row with that path
\* exists whose modtime is meta's modification time cut to whole seconds;
\* it is true right after save_results saved (path, meta, contents); and
\* once true it turns false only by a save of that path with another
\* modtime or by a sweep that deletes the row.
C4_IsIndexedIffRowWithModtime ==
  /\ [](\A p \in ApiPaths, m \in Metas :
          is_indexed(images, p, m)
            <=> \E r \in images : r.path = p /\ r.modtime = m \div TicksPerSec)
  /\ [][
     /\ (lastRet'.op = "is_indexed" /\ dbState = "open") =>
          lastRet'.val = (\E r \in images :
                            /\ r.path = lastRet'.arg[1]
                            /\ r.modtime = lastRet'.arg[2] \div TicksPerSec)
     /\ (lastRet'.op = "save_results" /\ dbState = "open") =>
          \A i \in 1..Len(lastRet'.arg) :
            LastFor(lastRet'.arg, i) =>
              is_indexed(images', lastRet'.arg[i].path, lastRet'.arg[i].metadata)
     /\ images' # images => \A p \in ApiPaths, m \in Metas :
          (is_indexed(images, p, m) /\ ~is_indexed(images', p, m)) =>
            \/ /\ lastRet'.op = "save_results"
               /\ \E i \in 1..Len(lastRet'.arg) :
                    /\ lastRet'.arg[i].path = p
                    /\ lastRet'.arg[i].metadata \div TicksPerSec # m \div TicksPerSec
            \/ /\ lastRet'.op = "sweep_deletions"
               /\ \A r \in images' : r.path # p]_vars

\* is_indexed answered true for an instant of the second the file was saved
\* in that is not the instant it was saved with.
C4_Witness ==
  /\ lastRet.op = "is_indexed"
  /\ lastRet.val = TRUE
  /\ lastRet.arg[2] = TicksPerSec
  /\ \E r \in images : r.path = lastRet.arg[1]

\* C5: the images table never holds two rows of one path; a save for a path
\* that has a row replaces that row's modtime and content, so that
\* is_indexed with the old metadata is false after a modtime change, and
\* adds no row.
C5_OneRowPerPath ==
  [][/\ \A r1, r2 \in images' : r1.path = r2.path => r1 = r2
     /\ (lastRet'.op = "save_results" /\ dbState = "open") =>
          LET results == lastRet'.arg
          IN  /\ {r.path : r \in images'}
                   = {r.path : r \in images}
                       \cup {results[i].path : i \in 1..Len(results)}
              /\ \A i \in 1..Len(results) :
                   LastFor(results, i) =>
                     /\ \E r \in images' :
                          /\ r.path = results[i].path
                          /\ r.modtime = results[i].metadata \div TicksPerSec
                          /\ r.content = results[i].contents
                     /\ \A old \in images, m \in Metas :
                          (/\ old.path = results[i].path
                           /\ m \div TicksPerSec = old.modtime
                           /\ old.modtime # results[i].metadata \div TicksPerSec)
                            => ~is_indexed(images', old.path, m)]_vars

\* A one-result save hit a row that carried a deletion mark, hence a row
\* that was there before the save, and left one row with the new values.
C5_Witness ==
  /\ lastRet.op = "save_results"
  /\ Len(lastRet.arg) = 1
  /\ \E r \in images :
       /\ r.path = lastRet.arg[1].path
       /\ r.mark_delete
       /\ r.modtime = 2
       /\ r.content = lastRet.arg[1].contents
  /\ Cardinality(images) >= 2

\* C6: every images row has exactly one live images_fts entry, with the
\* row's id and current content, and no live entry belongs to no row.
C6_FtsMirrorsImages ==
  /\ \A r \in images : CopiesIn(<<r.id, r.content>>, images_fts) = 1
  /\ \A e \in BagToSet(images_fts) :
       \E r \in images : e = <<r.id, r.content>>
  /\ \A r1, r2 \in images : r1.id = r2.id => r1 = r2

\* A sweep deleted a row with its entry and left another row, which had
\* been inserted after a row of a smaller id, with its entry.
C6_Witness ==
  /\ lastRet.op = "sweep_deletions"
  /\ lastRet.val >= 1
  /\ \E r \in images : r.id > 1 /\ CopiesIn(<<r.id, r.content>>, images_fts) = 1

\* C8: open dispatches on user_version: 0 runs the migration and ends at
\* version 2 with the tables; 2 opens with file and tables untouched; 1 and
\* anything above 2 fail and leave version and tables as they were; so an
\* open store has version 2, and the version never decreases.
C8_VersionDispatch ==
  [][/\ userVersion' >= userVersion
     /\ dbState' = "open" => (userVersion' = 2 /\ hasTables')
     /\ (dbState = "closed" /\ dbState' # "closed") =>
          /\ userVersion = 0 =>
               (dbState' = "open" /\ userVersion' = 2 /\ hasTables'
                /\ images' = {} /\ images_fts' = EmptyBag)
          /\ userVersion = 2 =>
               (dbState' = "open" /\ UNCHANGED <<fileVars, tableVars>>)
          /\ (userVersion = 1 \/ userVersion > 2) =>
               (dbState' = "failed" /\ UNCHANGED <<fileVars, tableVars>>)]_vars

\* A fresh file was opened and migrated.
C8_Witness ==
  /\ lastRet.op = "open"
  /\ lastRet.arg = 0
  /\ lastRet.val = "ok"
  /\ dbState = "open"
  /\ userVersion = 2
  /\ hasTables

\* C9: every result of search(queries, path, ...) is a row whose path
\* starts with path.
C9_SearchWithinPrefix ==
  lastRet.op = "search" =>
    \A i \in 1..Len(lastRet.val.rows) :
      StartsWith(lastRet.val.rows[i].path, lastRet.arg[2])

\* C10: q LIKE path_to_like(p) ESCAPE '#' holds exactly when q begins with
\* the characters of p.
C10_LikeIsLiteralPrefix ==
  likeRes # "unset" => (likeRes = "match" <=> StartsWith(likeQ, likeP))

----
\* Claims about index_dir

\* C2: at the end of an index_dir run with cleanup=true, every file that is
\* still present, was yielded by the walker and processed, was not dropped
\* for its dimensions and did not fail in OCR has a row in the index, whether
\* it was skipped as unchanged or sent to OCR again.
C2_CleanupKeepsPresentFiles ==
  (pc = "done" /\ options.cleanup) =>
    \A p \in (run.processed \ (run.failed \cup run.dropped)) \cap PresentFiles :
      \E r \in images : r.path = p

\* C7: an index_dir run with rescan=false that repeats the run before it
\* (files unchanged since that run started, every file sent to OCR by it and
\* none failed, same options otherwise) sends no file to OCR, saves 0 rows in
\* every save_results call and leaves the rows as that run left them.
C7_SecondRunIsIdle ==
  (pc = "done" /\ run.repeats /\ quiet) =>
    /\ run.sent = {}
    /\ \A i \in 1..Len(run.saves) : run.saves[i] = 0
    /\ RowData(images) = run.before

----
\* Claims about search

\* The calls  search(queries, path, limit, kind, exclude_glob)  last made.
LastSearch(kind) ==
  /\ lastRet.op = "search"
  /\ lastRet.arg[4] = kind

\* The paths of the rows a search returned.
ReturnedPaths == {lastRet.val.rows[i].path : i \in 1..Len(lastRet.val.rows)}

\* The rows whose path starts with the prefix and whose content contains
\* the joined terms, letter case aside.
SubstringRows(queries, path) ==
  {r \in images :
     /\ StartsWith(r.path, path)
     /\ Contains(LowerAll(r.content), LowerAll(Join(queries)))}

\* C11: a Simple search without exclude_glob succeeds and returns, up to
\* limit, exactly the rows under the path prefix whose content contains the
\* terms joined by single blanks as a case-insensitive substring, whatever
\* the length of the terms.
C11_SimpleIsSubstringSearch ==
  (LastSearch("Simple") /\ lastRet.arg[5] = NoDir) =>
    LET expected == SubstringRows(lastRet.arg[1], lastRet.arg[2])
    IN  /\ lastRet.val.ok
        /\ ReturnedPaths \subseteq {r.path : r \in expected}
        /\ Len(lastRet.val.rows) = Min(lastRet.arg[3], Cardinality(expected))

\* The row of the index with the given path.
RowOf(path) == CHOOSE r \in images : r.path = path

----
\* Claims about save_results

\* C20: save_results returns the number of results of its batch, each result
\* counting 1 whether it inserted a row or updated one; 0 for an empty batch.
C20_SaveReturnsBatchSize ==
  lastRet.op = "save_results" => lastRet.val = Len(lastRet.arg)

\* A batch of two results that left a single row: one of them was an update.
C20_Witness ==
  /\ lastRet.op = "save_results"
  /\ Len(lastRet.arg) = 2
  /\ lastRet.val = 2
  /\ Cardinality(images) = 1

----
\* Claims about the OCR adapter

\* C18: after Ocr::new returned an adapter, the engine's page-segmentation
\* mode is the psm the caller supplied, and 11 when none was supplied.
C18_PsmHonoured ==
  ocr.state = "ready" =>
    ocr.mode = (IF ocr.psm = Absent THEN SparseText ELSE ocr.psm[1])

\* C19: the text scan returns contains no two consecutive blank lines, that
\* is no three consecutive line feeds, whatever the engine recognised.
C19_NoBlankLineRuns ==
  ocrOut.state = "ok" => ~Contains(ocrOut.text, <<"\n", "\n", "\n">>)

----
\* Claims about the walker

\* An entry, or a directory between it and the root, matches an exclude
\* pattern.
ExcludedByPattern(p, exclude) ==
  \E q \in Range(Tree) \ {Cwd} :
    /\ q = p \/ (q \in TreeDirs /\ Under(p, q))
    /\ \E i \in 1..Len(exclude) : matches_path(exclude[i], q)

\* The extension of an entry in lower case.
LowerCaseExtension(p) ==
  [i \in 1..Len(Extensions[p][1]) |->
     LET c == Extensions[p][1][i]
     IN  CASE c = "P" -> "p" [] c = "N" -> "n" [] c = "G" -> "g"
           [] OTHER -> c]

\* The entries that are to be yielded: files that are present, not excluded,
\* of an indexed extension up to case, and direct children of the root
\* unless subdirs is set.
ToBeYielded(opts) ==
  {p \in TreeFiles :
     /\ files[p] # 0
     /\ ~ExcludedByPattern(p, opts.exclude)
     /\ Extensions[p] # Absent
     /\ LowerCaseExtension(p) \in indexed_filetypes
     /\ opts.subdirs \/ Depths[p] <= 1}

\* C14: a run without limit that came to its end has had from the walker
\* exactly the entries that are no directory, are not excluded themselves or
\* through a directory above them, carry one of the extensions png, jpeg,
\* jpg, gif, webp compared in lower case, and, without subdirs, are direct
\* children of the root.
C14_WalkerYieldsExactlyIndexable ==
  (pc = "done" /\ options.limit = Absent) =>
    run.yielded = ToBeYielded(options)

\* C16: no run is aborted by an entry whose name is not valid Unicode.
C16_NonUnicodeSkipped ==
  ~(pc = "panicked" /\ run.err = "Unicode")

----
\* Claims about runs with cleanup and about failing runs

\* C13: when a run with cleanup has ended, every row below the current
\* directory belongs to an entry the walker yielded in that run, a file that
\* was present and that no exclude pattern covers, itself or through a
\* directory above it.
C13_CleanupDropsVanishedAndExcluded ==
  (pc = "done" /\ options.cleanup) =>
    \A r \in images :
      Under(r.path, Cwd) =>
        /\ r.path \in run.yielded
        /\ ~ExcludedByPattern(r.path, options.exclude)

\* A run with cleanup has ended that started with the row of a file that was
\* gone by then, and with the row of a file its exclude list covers.
C13_Witness ==
  /\ pc = "done"
  /\ options.cleanup
  /\ \E r \in run.before : Under(r.path, Cwd) /\ files[r.path] = 0
                           /\ r.path \notin run.yielded
  /\ \E r \in run.before : Under(r.path, Cwd)
                           /\ ExcludedByPattern(r.path, options.exclude)

\* C15: no run is aborted because the OCR adapter cannot be constructed.
C15_OcrFailuresRecovered ==
  ~(pc = "panicked" /\ run.err = "OcrInit")

\* C17: a run with a language code that is refused neither marks, scans,
\* saves nor sweeps, does not end normally, and when it has failed it has
\* failed with InvalidLanguage.
C17_InvalidLanguageFatalAtStartup ==
  (pc # "idle" /\ InvalidLanguage(options.lang)) =>
    /\ ~run.marked
    /\ ~run.swept
    /\ run.saves = <<>>
    /\ run.sent = {}
    /\ pc # "done"
    /\ pc = "panicked" => run.err = "InvalidLanguage"

----
\* Claims about the skip predicate

\* A candidate was indexed with its present modification time when the run
\* began.
WasIndexed(p) ==
  \E r \in run.before :
    r.path = p /\ r.modtime = metadata_to_seconds(files[p])

\* C21: when a run without rescan has ended over files that did not change
\* while it ran, every candidate that was indexed with its present
\* modification time when the run began was not sent to OCR and, in a run
\* with cleanup, still has its row, whatever max_dimensions is and whatever
\* the image's dimensions are.
C21_IndexedSkippedBeforeDimensions ==
  (pc = "done" /\ ~options.rescan /\ quiet) =>
    \A p \in run.processed :
      WasIndexed(p) =>
        /\ p \notin run.sent
        /\ options.cleanup => \E r \in images : r.path = p

\* The candidates max_dimensions lets through: the header can be opened and
\* decoded and the image is within the bounds.
WithinDimensions(p, opts) ==
  /\ can_open(p)
  /\ can_decode(p)
  /\ Dimensions(p)[1] <= opts.max_dimensions[1][1]
  /\ Dimensions(p)[2] <= opts.max_dimensions[1][2]

\* C28: no run is aborted by an image file that cannot be opened, and when a
\* run with max_dimensions has ended, the candidates it sent to OCR are
\* those among the not yet indexed ones whose header could be opened and
\* decoded and whose width and height are within the bounds.
C28_DimensionsFilter ==
  /\ ~(pc = "panicked" /\ run.err = "ImageOpen")
  /\ (pc = "done" /\ options.max_dimensions # Absent /\ ~options.rescan) =>
       run.sent = {p \in run.processed :
                     ~WasIndexed(p) /\ WithinDimensions(p, options)}

----
\* Claims about the chunk loop

\* The chunks of a run one after the other.
RECURSIVE Flatten(_)
Flatten(chunks) ==
  IF chunks = <<>> THEN <<>> ELSE Head(chunks) \o Flatten(Tail(chunks))

\* What the walker yields over the directory as it is, polled to its end.
WalkerOutput == walker(Tree, Len(Tree), options, <<>>).chunk

\* The entries the limit lets through.
Limited ==
  IF options.limit = Absent THEN WalkerOutput
  ELSE SubSeq(WalkerOutput, 1, Min(options.limit[1], Len(WalkerOutput)))

\* C29: when a run has ended, its chunks one after the other are the first
\* min(limit, N) of the N entries the walker yields, in the walker's order;
\* no chunk is empty or longer than chunksize, each chunk was saved once, and
\* a run whose walker yields nothing has no chunk and no save, only the
\* sweep.
C29_ChunksPartitionWalkerOutput ==
  pc = "done" =>
    /\ Flatten(run.chunks) = Limited
    /\ \A i \in 1..Len(run.chunks) :
         Len(run.chunks[i]) \in 1..options.chunksize
    /\ Len(run.saves) = Len(run.chunks)
    /\ run.swept
    /\ Limited = <<>> => run.chunks = <<>> /\ run.saves = <<>>

\* A run has ended whose limit cut the walker's output short and that worked
\* in more than one chunk.
C29_Witness ==
  /\ pc = "done"
  /\ options.limit # Absent
  /\ Len(Limited) < Len(WalkerOutput)
  /\ Len(run.chunks) >= 2

----
\* Claims about mark_for_deletion

\* C26: right after mark_for_deletion(D) has returned, the rows that carry
\* the deletion mark are exactly the rows whose path starts with D, whatever
\* was marked before the call.
C26_MarksExactlyPrefixRows ==
  (dbState = "open" /\ lastRet.op = "mark_for_deletion") =>
    {r \in images : r.mark_delete}
      = {r \in images : StartsWith(r.path, lastRet.arg)}


\* C27: a mark_for_deletion call with a path that is no directory fails and
\* leaves every row and every mark as it was.
C27_NotADirectoryChangesNothing ==
  [][lastRet'.op = "mark_for_deletion_panic" =>
       images' = images /\ images_fts' = images_fts]_vars

\* mark_for_deletion has failed on a path that is no directory while a row
\* carried a mark.
C27_Witness ==
  /\ lastRet.op = "mark_for_deletion_panic"
  /\ ~is_dir(lastRet.arg)
  /\ \E r \in images : r.mark_delete

----
\* Claims about the transaction of save_results

\* Every result of a batch is in the store, a later result for the same
\* path taking the place of an earlier one, each with its entry in the
\* full-text index.
AllPersisted(rows, fts, results) ==
  \A i \in 1..Len(results) :
    LastFor(results, i) =>
      \E r \in rows :
        /\ r.path = results[i].path
        /\ r.modtime = metadata_to_seconds(results[i].metadata)
        /\ r.content = results[i].contents
        /\ <<r.id, r.content>> \in BagToSet(fts)

\* C30: a save_results call either stores every result of its batch with
\* its full-text entry, or, when an upsert or the commit fails, leaves rows
\* and full-text index as they were before the call.
C30_SaveIsAtomic ==
  [][/\ lastRet'.op = "save_results" =>
          AllPersisted(images', images_fts', lastRet'.arg)
     /\ lastRet'.op = "save_results_panic" =>
          images' = images /\ images_fts' = images_fts]_vars

\* A save has failed at the second or a later statement of its batch.
C30_Witness ==
  /\ lastRet.op = "save_results_panic"
  /\ lastRet.val >= 2
  /\ Len(lastRet.arg) >= 2

----
\* Claims about main

\* C25: a search is made only when the indexing of the invocation, if it
\* was asked for, has returned Ok, never while it runs or after it has
\* failed; it leaves the run and the rows as they are, and every row it
\* returns is a row the finished run has left in the store.
C25_SearchAfterIndexing ==
  [][(lastRet'.op = "search" /\ lastRet' # lastRet) =>
       /\ pc \in {"idle", "done"}
       /\ pc = "done" => run.swept
       /\ pc' = pc /\ run' = run /\ images' = images
       /\ \A i \in 1..Len(lastRet'.val.rows) :
            \E r \in images : r.path = lastRet'.val.rows[i].path]_vars

\* A search has returned a row after a run with cleanup that saved a row
\* and swept another.
C25_Witness ==
  /\ lastRet.op = "search"
  /\ lastRet.val.rows # <<>>
  /\ pc = "done"
  /\ options.cleanup
  /\ \E i \in 1..Len(run.saves) : run.saves[i] > 0
  /\ \E r \in run.before : \A k \in images : k.path # r.path

----
\* Claims about the order of the chunk loop and about its threads

\* The walker's entries before the chunk in work: the chunks saved so far.
IsPrefix(s, t) == Len(s) <= Len(t) /\ s = SubSeq(t, 1, Len(s))

\* While a scan is running, its file belongs to the chunk in work, every
\* chunk before it has been saved, and the saved chunks followed by the chunk
\* in work are a prefix of the walker's output.
C22_ScanAfterEarlierSaves ==
  /\ IsPrefix(Flatten(run.chunks), WalkerOutput)
  /\ Len(run.saves) = Len(run.chunks)
  /\ \A w \in Scanning :
       /\ pool.workers[w].item \in Range(pool.current)
       /\ pool.phase = "ocr"
       /\ IsPrefix(Flatten(run.chunks) \o pool.current, WalkerOutput)
  /\ run.swept => pc = "done" /\ Scanning = {}
  /\ pc = "done" => run.swept

\* The step that calls sweep_deletions, and the steps that call save_results.
C22_SweepCall == run'.swept /\ ~run.swept
C22_SaveCall == Len(run'.saves) > Len(run.saves)

\* The sweep is called with every chunk of the walker's output saved and no
\* scan running; no other step removes a row, and once the sweep is done the
\* run saves nothing more.
C22_SweepOnceAtEnd ==
  /\ C22_SweepCall =>
       /\ Flatten(run.chunks) = WalkerOutput
       /\ Len(run.saves) = Len(run.chunks)
       /\ Scanning = {}
       /\ pc' = "done"
  /\ ~({r.path : r \in images} \subseteq {r.path : r \in images'}) =>
       C22_SweepCall
  /\ (run.swept /\ run'.swept) => (run' = run /\ images' = images)
  /\ C22_SaveCall =>
       /\ ~run.swept
       /\ run'.chunks = Append(run.chunks, pool.current)
       /\ Scanning = {}

\* C22: the save of chunk n is complete before any scan of chunk n+1 starts,
\* the chunks are saved in the walker's order, and sweep_deletions is called
\* once in a run that reaches the end of the loop, after the save of the last
\* chunk.
C22_StrictCrossChunkOrdering ==
  []C22_ScanAfterEarlierSaves /\ [][C22_SweepOnceAtEnd]_vars

\* A scan of the second chunk is running, the first chunk being saved.
C22_Witness ==
  /\ Scanning # {}
  /\ Len(run.chunks) = 1
  /\ run.saves # <<>>
  /\ lastRet.op = "save_results"

\* A step of an OCR worker: a job starts, takes a file, ends a scan or ends.
C23_WorkerStep == pool'.workers # pool.workers

\* A step in which the store is called: the second filter with its
\* is_indexed and unmark_file calls, save_results, sweep_deletions, or any
\* step that leaves the tables or the last returned value changed.
C23_StoreStep ==
  \/ run'.processed # run.processed
  \/ Len(run'.saves) # Len(run.saves)
  \/ run'.swept # run.swept
  \/ images' # images
  \/ images_fts' # images_fts
  \/ lastRet' # lastRet

\* The number of chunks the walker's output is cut into.
C23_ChunkCount ==
  (Len(WalkerOutput) + options.chunksize - 1) \div options.chunksize

\* C23: the store is called by the coordinating thread only: no step of an
\* OCR worker calls it, every step that calls it is taken with no job of the
\* parallel map alive, and save_results is called once for each chunk, after
\* every file the chunk sent to OCR was scanned.
C23_StoreOnCoordinatorOnly ==
  [][/\ C23_WorkerStep => ~C23_StoreStep
     /\ (C23_StoreStep /\ pc = "chunks") =>
          \A w \in Workers : /\ pool.workers[w] = IdleWorker
                             /\ pool'.workers[w] = IdleWorker
     /\ C22_SaveCall =>
          /\ Len(run'.saves) = Len(run.saves) + 1
          /\ Len(run'.saves) = Len(run'.chunks)
          /\ pool.queue = {}
          /\ pool.ok \cup pool.failed = Range(pool.kept)
     /\ C22_SweepCall => Len(run.saves) = C23_ChunkCount]_vars

\* A chunk of two files, scanned by two jobs, has been saved.
C23_Witness ==
  /\ pc = "chunks"
  /\ pool.phase = "between"
  /\ lastRet.op = "save_results"
  /\ Cardinality(pool.ok) = 2
  /\ pool.made >= 2

\* C24: no adapter is used by two workers at the same time: a worker inside
\* ocr.scan holds an adapter made by its own job's init closure, and no other
\* live job holds the same adapter.
C24_AdapterHeldExclusively ==
  \A w \in Workers :
    pool.workers[w].state # "idle" =>
      /\ pool.workers[w].adapter \in 1..pool.made
      /\ \A v \in Workers \ {w} :
           pool.workers[v].state # "idle" =>
             pool.workers[v].adapter # pool.workers[w].adapter

\* Two workers are inside ocr.scan at the same time.
C24_Witness == Cardinality(Scanning) = 2

----
\* Claims about runs without cleanup

\* C31: a run with cleanup=false deletes no row: when it has ended, every
\* path that had a row when the run started still has one, also when the
\* store held rows marked by an earlier run with cleanup that was interrupted
\* between mark_for_deletion and its sweep.
C31_NoCleanupNeverDeletes ==
  (pc = "done" /\ ~options.cleanup) =>
    \A r \in run.before : \E k \in images : k.path = r.path

----
\* Claims about the frame of save_results

\* C32: a save_results call leaves every row that was there with its id, its
\* path and its mark_delete flag; a row whose path is not in the batch is not
\* changed at all, and a row whose path is in the batch changes in modtime
\* and content only.
C32_SaveFrame ==
  [][(lastRet'.op = "save_results" /\ dbState = "open") =>
       LET results == lastRet'.arg
           saved == {results[i].path : i \in 1..Len(results)}
       IN  \A old \in images :
             /\ old.path \notin saved => old \in images'
             /\ old.path \in saved =>
                  \E r \in images' :
                    /\ r.id = old.id
                    /\ r.path = old.path
                    /\ r.mark_delete = old.mark_delete
                    /\ \E i \in 1..Len(results) :
                         /\ results[i].path = r.path
                         /\ r.modtime = metadata_to_seconds(results[i].metadata)
                         /\ r.content = results[i].contents]_vars

\* A save changed the content of a marked row while another row, of a path
\* that was not in the batch, is in the table.
C32_Witness ==
  /\ lastRet.op = "save_results"
  /\ \E r, k \in images :
       /\ r.mark_delete
       /\ r.id = 1
       /\ r.content = TextCat
       /\ k.path # r.path
       /\ \A i \in 1..Len(lastRet.arg) : lastRet.arg[i].path = r.path
       /\ lastRet.arg # <<>>

====
